---- MODULE Spec2Model ----
(***************************************************************************)
(* Model of main.py: the grocery-list OCR service.                         *)
(*                                                                         *)
(* Strings are sequences of one-character strings, so that the character   *)
(* level work of the program (str.strip, str.title, str.replace, re.sub     *)
(* and the name/quantity regular expression) is computed, not assumed.      *)
(* Python's None is the empty tuple and a present value x is <<x>>.          *)
(***************************************************************************)
EXTENDS Naturals, Integers, Sequences, FiniteSets, TLC

VARIABLES
    arg,        \* unit harness: the string handed to a function of main.py
    op,         \* unit harness: which function has been applied to arg
    out,        \* unit harness: what that function produced
    pc,         \* per request: position inside process_image
    text,       \* per request: extracted_text (raw OCR output)
    lines,      \* per request: extracted_text.splitlines()
    lineIdx,    \* per request: index of the line the for-loop is at
    combined,   \* per request: combined_items of the current line
    itemIdx,    \* per request: index into combined_items
    items,      \* per request: the items list
    response,   \* per request: what the client gets back
    running     \* the coroutine that currently occupies the event loop

vars == <<arg, op, out, pc, text, lines, lineIdx, combined, itemIdx, items,
          response, running>>

unitVars == <<arg, op, out>>
reqVars == <<pc, text, lines, lineIdx, combined, itemIdx, items, response, running>>

(***************************************************************************)
(* Bounds of the model.                                                    *)
(***************************************************************************)
MaxTokens == 3
MaxLines == 2
NumRequests == 2

(***************************************************************************)
(* Characters.                                                             *)
(***************************************************************************)
LowerChars == <<"a","b","c","d","e","f","g","h","i","j","k","l","m",
                "n","o","p","q","r","s","t","u","v","w","x","y","z">>
UpperChars == <<"A","B","C","D","E","F","G","H","I","J","K","L","M",
                "N","O","P","Q","R","S","T","U","V","W","X","Y","Z">>
LowerSet == {LowerChars[i] : i \in 1..26}
UpperSet == {UpperChars[i] : i \in 1..26}
Digits == {"0","1","2","3","4","5","6","7","8","9"}
NL == "\n"
Whitespace == {" ", "\t", NL}

ToLowerMap == [c \in UpperSet |-> LowerChars[CHOOSE i \in 1..26 : UpperChars[i] = c]]
ToUpperMap == [c \in LowerSet |-> UpperChars[CHOOSE i \in 1..26 : LowerChars[i] = c]]

LowerChar(c) == IF c \in UpperSet THEN ToLowerMap[c] ELSE c
UpperChar(c) == IF c \in LowerSet THEN ToUpperMap[c] ELSE c

IsCased(c) == c \in LowerSet \cup UpperSet
\* \w of the re module: letters, digits and the underscore
IsWord(c) == c \in LowerSet \cup UpperSet \cup Digits \cup {"_"}
IsSpace(c) == c \in Whitespace

(***************************************************************************)
(* str methods.                                                            *)
(***************************************************************************)
None == <<>>

Lower(s) == [i \in 1..Len(s) |-> LowerChar(s[i])]

\* s[i..j-1], 1-based, empty when j <= i
Slice(s, i, j) == IF j <= i THEN <<>> ELSE SubSeq(s, i, j - 1)

\* str.strip()
Strip(s) ==
    LET keep == {i \in 1..Len(s) : ~IsSpace(s[i])}
    IN  IF keep = {} THEN <<>>
        ELSE LET lo == CHOOSE i \in keep : \A j \in keep : i <= j
                 hi == CHOOSE i \in keep : \A j \in keep : j <= i
             IN  SubSeq(s, lo, hi)

\* str.title(): a cased character is upper-cased when it follows an uncased
\* one (or starts the string) and lower-cased otherwise
Title(s) ==
    [i \in 1..Len(s) |->
        IF i = 1 \/ ~IsCased(s[i - 1]) THEN UpperChar(s[i]) ELSE LowerChar(s[i])]

\* old occurs in s at position i
OccursAt(s, old, i) ==
    /\ i >= 1
    /\ i + Len(old) - 1 <= Len(s)
    /\ \A k \in 1..Len(old) : s[i + k - 1] = old[k]

\* old in s
Contains(s, old) == \E i \in 1..(Len(s) + 1) : OccursAt(s, old, i)

\* str.replace(old, new) for a non-empty old: leftmost non-overlapping
\* occurrences, case-sensitive
RECURSIVE ReplaceFrom(_, _, _, _)
ReplaceFrom(s, old, new, i) ==
    IF i > Len(s) THEN <<>>
    ELSE IF OccursAt(s, old, i)
         THEN new \o ReplaceFrom(s, old, new, i + Len(old))
         ELSE <<s[i]>> \o ReplaceFrom(s, old, new, i + 1)

Replace(s, old, new) == ReplaceFrom(s, old, new, 1)

\* str.split(sep) for a one-character sep
RECURSIVE SplitOn(_, _)
SplitOn(s, sep) ==
    IF \A i \in 1..Len(s) : s[i] # sep THEN <<s>>
    ELSE LET p == CHOOSE i \in 1..Len(s) :
                      s[i] = sep /\ \A j \in 1..(i - 1) : s[j] # sep
         IN  <<Slice(s, 1, p)>> \o SplitOn(Slice(s, p + 1, Len(s) + 1), sep)

\* str.splitlines(): split at line boundaries, no empty last line
splitlines(s) ==
    LET parts == SplitOn(s, NL)
    IN  IF parts[Len(parts)] = <<>> THEN SubSeq(parts, 1, Len(parts) - 1)
        ELSE parts

\* re.sub(r'\s+', '', s)
RemoveSpace(s) == SelectSeq(s, LAMBDA c : ~IsSpace(c))

\* re.sub(r'[^\w\s.]+', ' ', s): each maximal run of characters that are
\* neither word characters, whitespace nor '.' becomes one space
IsJunk(c) == ~(IsWord(c) \/ IsSpace(c) \/ c = ".")

RECURSIVE CleanFrom(_, _)
CleanFrom(s, i) ==
    IF i > Len(s) THEN <<>>
    ELSE IF IsJunk(s[i])
         THEN (IF i > 1 /\ IsJunk(s[i - 1]) THEN <<>> ELSE <<" ">>)
              \o CleanFrom(s, i + 1)
         ELSE <<s[i]>> \o CleanFrom(s, i + 1)

CleanText(s) == Strip(CleanFrom(s, 1))

(***************************************************************************)
(* The correction table, in dict order.                                    *)
(***************************************************************************)
ocr_corrections == <<
    << <<"O","i">>, <<"O","i","l">> >>,
    << <<"P","o","t","a","t","c">>, <<"P","o","t","a","t","o">> >>,
    << <<"0","n","i","o","n">>, <<"O","n","i","o","n">> >>,
    << <<"C","h","i","n","e","s">>, <<"C","h","i","n","e","s","e">> >>,
    << <<"C","h","i","c","k","e","n"," ","B","o","n","l","e","s">>,
       <<"C","h","i","c","k","e","n"," ","B","o","n","e","l","e","s","s">> >>,
    << <<"B","a","z","a","l"," ","L","e","a","v","e">>,
       <<"B","a","s","i","l"," ","L","e","a","v","e","s">> >>,
    << <<"C","a","s","o","r">>, <<"K","a","s","o","o","r">> >>,
    << <<"C","a","p","c","k","m">>, <<"C","a","p","s","i","c","u","m">> >>,
    << <<"C","o","m","b","e","r">>, <<"C","u","c","u","m","b","e","r">> >>,
    << <<"G","r","e","e","n"," ","P","a","t","t","a">>,
       <<"G","r","e","e","n"," ","L","e","a","v","e","s">> >>,
    << <<"S","a","l","a","d"," ","P","a","t","t","a">>,
       <<"S","a","l","a","d"," ","L","e","a","v","e","s">> >>
>>

(***************************************************************************)
(* The name/quantity pattern of process_single_item, matched with          *)
(* re.IGNORECASE:                                                          *)
(*   (.*?)\s*(\d+(?:\.\d+)?(?:\s*(?:kg|g|gr|pkt|lit|can|piece|pieces|pcs))?)?(?:\s*(?:V))?$ *)
(* A position is the index of the next character to read.  Each piece of   *)
(* the pattern is the set of positions at which it can end when started at *)
(* position i.                                                             *)
(***************************************************************************)
Units == <<
    <<"k","g">>, <<"g">>, <<"g","r">>, <<"p","k","t">>, <<"l","i","t">>,
    <<"c","a","n">>, <<"p","i","e","c","e">>, <<"p","i","e","c","e","s">>,
    <<"p","c","s">> >>

\* \s*
WsEnds(s, i) == {j \in i..(Len(s) + 1) : \A k \in i..(j - 1) : IsSpace(s[k])}

\* \d+
DigitsEnds(s, i) == {j \in (i + 1)..(Len(s) + 1) : \A k \in i..(j - 1) : s[k] \in Digits}

\* \d+(?:\.\d+)?
NumberEnds(s, i) ==
    UNION {{d} \cup (IF d <= Len(s) /\ s[d] = "." THEN DigitsEnds(s, d + 1) ELSE {})
           : d \in DigitsEnds(s, i)}

\* (?:kg|g|gr|pkt|lit|can|piece|pieces|pcs), ignoring case
OccursAtAnyCase(s, word, i) ==
    /\ i + Len(word) - 1 <= Len(s)
    /\ \A k \in 1..Len(word) : LowerChar(s[i + k - 1]) = word[k]

UnitEnds(s, i) ==
    {i + Len(Units[u]) : u \in {v \in 1..Len(Units) : OccursAtAnyCase(s, Units[v], i)}}

\* a quantity without its number: a bare unit would count as a quantity
QuantityEndsUnitOnly(s, i) ==
    UNION {{n} \cup UNION {UnitEnds(s, w) : w \in WsEnds(s, n)}
           : n \in NumberEnds(s, i) \cup {i}} \ {i}

\* group 2: \d+(?:\.\d+)?(?:\s*(?:unit))?
QuantityEnds(s, i) ==
    UNION {{n} \cup UNION {UnitEnds(s, w) : w \in WsEnds(s, n)}
           : n \in NumberEnds(s, i)}

\* (?:\s*(?:V))?, ignoring case
MarkerEnds(s, i) ==
    {i} \cup {w + 1 : w \in {x \in WsEnds(s, i) : x <= Len(s) /\ LowerChar(s[x]) = "v"}}

\* The ways the pattern after group 1 can consume s from position k to the
\* end of the string: ws is where \s* stops, q the span of group 2 (or None)
TailParses(s, k) ==
    LET end == Len(s) + 1
    IN  UNION {
          {[ws |-> w, q |-> <<w, e>>] : e \in {x \in QuantityEnds(s, w) : end \in MarkerEnds(s, x)}}
          \cup (IF end \in MarkerEnds(s, w) THEN {[ws |-> w, q |-> None]} ELSE {})
          : w \in WsEnds(s, k)}

\* The parse the backtracking matcher reaches first: \s* is greedy, the
\* optional group 2 is tried before it is skipped, and its parts are greedy
Preferred(p, r) ==
    \/ p.ws > r.ws
    \/ p.ws = r.ws /\ p.q # None /\ r.q = None
    \/ p.ws = r.ws /\ p.q # None /\ r.q # None /\ p.q[2] >= r.q[2]
    \/ p.ws = r.ws /\ p.q = None /\ r.q = None

FirstParse(s, k) ==
    CHOOSE p \in TailParses(s, k) : \A r \in TailParses(s, k) : Preferred(p, r)

\* group 1 may end before position k: '.' matches anything but a newline,
\* and the rest of the pattern must match the rest of the string
NameCanEnd(s, k) ==
    /\ \A j \in 1..(k - 1) : s[j] # NL
    /\ TailParses(s, k) # {}

\* a greedy group 1, (.*), would try the longest name first
RECURSIVE GreedyFrom(_, _)
GreedyFrom(s, k) ==
    IF k < 1 THEN 0
    ELSE IF NameCanEnd(s, k) THEN k
    ELSE GreedyFrom(s, k - 1)

GreedyNameEnd(s) == GreedyFrom(s, Len(s) + 1)

\* the lazy group 1, (.*?), tries the shortest name first and grows it one
\* character at a time; 0 when the pattern does not match at all
RECURSIVE LazyFrom(_, _)
LazyFrom(s, k) ==
    IF k > Len(s) + 1 THEN 0
    ELSE IF NameCanEnd(s, k) THEN k
    ELSE LazyFrom(s, k + 1)

LazyNameEnd(s) == LazyFrom(s, 1)

\* re.match(pattern, item_text, re.IGNORECASE): None, or <<groups>>
pattern_match(s) ==
    LET k == LazyNameEnd(s)
    IN  IF k = 0 THEN None
        ELSE LET p == FirstParse(s, k)
             IN  <<[group1 |-> Slice(s, 1, k),
                    group2 |-> IF p.q = None THEN None ELSE <<Slice(s, p.q[1], p.q[2])>>]>>

(***************************************************************************)
(* split_combined_items and process_single_item.                           *)
(***************************************************************************)
\* a split that keeps the empty segments
split_keep_empty(line) ==
    LET parts == SplitOn(Replace(line, <<"+">>, <<",">>), ",")
    IN  [i \in 1..Len(parts) |-> Strip(parts[i])]

split_combined_items(line) ==
    LET parts == SplitOn(Replace(line, <<"+">>, <<",">>), ",")
        stripped == [i \in 1..Len(parts) |-> Strip(parts[i])]
    IN  SelectSeq(stripped, LAMBDA item : item # <<>>)

\* for key, value in ocr_corrections.items(): if key.lower() in
\* itemname.lower(): itemname = itemname.replace(key, value)
RECURSIVE ApplyCorrections(_, _)
ApplyCorrections(itemname, i) ==
    IF i > Len(ocr_corrections) THEN itemname
    ELSE LET key == ocr_corrections[i][1]
             value == ocr_corrections[i][2]
         IN  IF Contains(Lower(itemname), Lower(key))
             THEN ApplyCorrections(Replace(itemname, key, value), i + 1)
             ELSE ApplyCorrections(itemname, i + 1)

\* the name-correction step: title-casing, then the correction loop
correct_name(name) == ApplyCorrections(Title(Strip(name)), 1)

\* a name check that lets single-character names through
NonEmptyName(itemname) == Len(itemname) > 0

\* if len(itemname) > 1
ValidName(itemname) == Len(itemname) > 1

\* process_single_item, with its local variables at the point of return:
\* result is None or <<[itemname, quantity]>>
process_single_item(item_text) ==
    LET cleaned == CleanText(item_text)
        m == pattern_match(cleaned)
    IN  IF cleaned = <<>> \/ m = None
        THEN [cleaned |-> cleaned, matched |-> FALSE, group1 |-> <<>>, group2 |-> None,
              itemname |-> <<>>, quantity |-> <<>>, result |-> None]
        ELSE LET itemname == correct_name(m[1].group1)
                 quantity == IF m[1].group2 # None /\ m[1].group2[1] # <<>>
                             THEN RemoveSpace(m[1].group2[1]) ELSE <<>>
             IN  [cleaned |-> cleaned, matched |-> TRUE,
                  group1 |-> m[1].group1, group2 |-> m[1].group2,
                  itemname |-> itemname, quantity |-> quantity,
                  result |-> IF ValidName(itemname)
                             THEN <<[itemname |-> itemname, quantity |-> quantity]>>
                             ELSE None]

(***************************************************************************)
(* Inputs.                                                                 *)
(***************************************************************************)
RECURSIVE Flatten(_)
Flatten(ss) == IF ss = <<>> THEN <<>> ELSE Head(ss) \o Flatten(Tail(ss))

RECURSIVE Join(_, _)
Join(ss, sep) ==
    IF ss = <<>> THEN <<>>
    ELSE IF Len(ss) = 1 THEN ss[1]
    ELSE ss[1] \o sep \o Join(Tail(ss), sep)

Tokens == {
    <<"O","i">>, <<"0","n","i","o","n">>, <<"S","h","i","v">>, <<"I","t","e","m">>,
    <<" ">>, <<"5">>, <<"2">>, <<"k","g">>, <<".">>, <<"V">>, <<",">>, <<"+">> }

Scenarios == {
    <<"a">>,
    <<"O","i"," ","2","k","g",","," ","P","o","t","a","t","c"," ","1","k","g">>,
    <<"P","o","t","a","t","c"," ","1","k","g">>,
    <<"O","i","l"," ","2","k","g">>,
    <<"C","h","i","n","e","s","e">>,
    <<"B","o","i","l">>,
    <<"I","t","e","m"," ","5"," ","2","k","g">>,
    <<"I","t","e","m"," ","1",".","5"," ","2",".","5"," ","p","c","s">>,
    <<"L","a","v"," ","L","e","a","f"," ","P","a","v">>,
    <<"R","i","c","e"," ","2"," ","k","g"," ","V">>,
    <<"M","a","n","g","o"," ","5"," ","d","o","z","e","n">>,
    <<"c","h","i","c","k","e","n"," ","b","o","n","l","e","s"," ","2","\t","P","C","S">>,
    <<" "," ","x","_","y","(","-",")","3"," ","g","r"," ">> }

UnitInputs ==
    {Flatten(ts) : ts \in UNION {[1..n -> Tokens] : n \in 0..MaxTokens}} \cup Scenarios

OcrLineSet == {
    <<"O","i"," ","2","k","g",","," ","a","+","P","o","t","a","t","c"," ","1","k","g">>,
    <<"I","t","e","m"," ","5"," ","2","k","g">> }

BlankLine == <<" "," "," ">>
ShortLine == <<"a","b">>

\* what pytesseract.image_to_string may return: any text of up to MaxLines
\* lines, and texts with a blank line, a short line and a final newline
OcrTexts ==
    {Join(ls, <<NL>>) : ls \in UNION {[1..n -> OcrLineSet] : n \in 0..MaxLines}}
    \cup {BlankLine \o <<NL>>,
          ShortLine \o <<NL>> \o <<"I","t","e","m"," ","5"," ","2","k","g">>,
          BlankLine \o <<NL>> \o <<"I","t","e","m"," ","5"," ","2","k","g">> \o <<NL>>}

Requests == 1..NumRequests

(***************************************************************************)
(* Unit harness: one function of main.py applied to one input.            *)
(***************************************************************************)
ReqIdle ==
    /\ pc = [r \in Requests |-> "pending"]
    /\ text = [r \in Requests |-> <<>>]
    /\ lines = [r \in Requests |-> <<>>]
    /\ lineIdx = [r \in Requests |-> 0]
    /\ combined = [r \in Requests |-> <<>>]
    /\ itemIdx = [r \in Requests |-> 0]
    /\ items = [r \in Requests |-> <<>>]
    /\ response = [r \in Requests |-> None]
    /\ running = 0

InitUnit ==
    /\ arg \in UnitInputs
    /\ op = "idle"
    /\ out = None
    /\ ReqIdle

CallSplit ==
    /\ op = "idle"
    /\ op' = "split"
    /\ out' = split_combined_items(arg)
    /\ UNCHANGED <<arg, reqVars>>

CallParse ==
    /\ op = "idle"
    /\ op' = "parse"
    /\ out' = process_single_item(arg)
    /\ UNCHANGED <<arg, reqVars>>

\* the name-correction step applied again to the name it produced
CallCorrectAgain ==
    /\ op = "parse"
    /\ out.matched
    /\ op' = "recorrect"
    /\ out' = [first |-> out.itemname, second |-> correct_name(out.itemname)]
    /\ UNCHANGED <<arg, reqVars>>

NextUnit == CallSplit \/ CallParse \/ CallCorrectAgain

SpecUnit == InitUnit /\ [][NextUnit]_vars

(***************************************************************************)
(* process_image: an async handler run by a single event loop.  The        *)
(* handler contains no await, so once the loop has started a request's     *)
(* coroutine it occupies the loop until it returns or raises; running is    *)
(* that request, or 0 when the loop is free.                                *)
(***************************************************************************)
Failure == <<[status |-> "error"]>>

\* the line filter: not line.strip() or len(line.strip()) < 3
SkipLine(line) == Strip(line) = <<>> \/ Len(Strip(line)) < 3

\* '+' in line or ',' in line
HasSeparator(line) == \E i \in 1..Len(line) : line[i] \in {"+", ","}

\* an append at the wrong end of the list
PrependItem(list, processed_item) ==
    IF processed_item # None THEN processed_item \o list ELSE list

\* if processed_item: items.append(processed_item)
AppendItem(list, processed_item) ==
    IF processed_item # None THEN list \o processed_item ELSE list

\* the coroutine of request r ends: its local variables are gone and the
\* event loop is free again
EndCoroutine(r) ==
    /\ text' = [text EXCEPT ![r] = <<>>]
    /\ lines' = [lines EXCEPT ![r] = <<>>]
    /\ lineIdx' = [lineIdx EXCEPT ![r] = 0]
    /\ combined' = [combined EXCEPT ![r] = <<>>]
    /\ itemIdx' = [itemIdx EXCEPT ![r] = 0]
    /\ items' = [items EXCEPT ![r] = <<>>]
    /\ running' = 0

\* a handler that answers with the list built so far instead of failing
AnswerPartial(r) ==
    /\ pc' = [pc EXCEPT ![r] = "failed"]
    /\ response' = [response EXCEPT ![r] = <<[status |-> "ok", items |-> items[r]]>>]
    /\ EndCoroutine(r)

\* except Exception as e: logger.error(...); raise
Raise(r) ==
    /\ pc' = [pc EXCEPT ![r] = "failed"]
    /\ response' = [response EXCEPT ![r] = Failure]
    /\ EndCoroutine(r)

InitReq ==
    /\ arg = <<>>
    /\ op = "off"
    /\ out = None
    /\ ReqIdle

\* the event loop starts the coroutine of a received request
Begin(r) ==
    /\ running = 0
    /\ pc[r] = "pending"
    /\ running' = r
    /\ pc' = [pc EXCEPT ![r] = "open"]
    /\ UNCHANGED <<unitVars, text, lines, lineIdx, combined, itemIdx, items, response>>

\* image = Image.open(file.file)
OpenImage(r) ==
    /\ running = r
    /\ pc[r] = "open"
    /\ pc' = [pc EXCEPT ![r] = "preprocess"]
    /\ UNCHANGED <<unitVars, text, lines, lineIdx, combined, itemIdx, items, response, running>>

OpenImageRaises(r) ==
    /\ running = r
    /\ pc[r] = "open"
    /\ Raise(r)
    /\ UNCHANGED unitVars

\* processed_image = preprocess_image(image), then the call of
\* pytesseract.image_to_string is made on the event loop's thread
preprocess_image(r) ==
    /\ running = r
    /\ pc[r] = "preprocess"
    /\ pc' = [pc EXCEPT ![r] = "ocr"]
    /\ UNCHANGED <<unitVars, text, lines, lineIdx, combined, itemIdx, items, response, running>>

\* preprocess_image logs and re-raises
PreprocessRaises(r) ==
    /\ running = r
    /\ pc[r] = "preprocess"
    /\ Raise(r)
    /\ UNCHANGED unitVars

\* image_to_string returns; items = []; the for-loop starts
OcrReturns(r) ==
    /\ running = r
    /\ pc[r] = "ocr"
    /\ \E t \in OcrTexts :
          /\ text' = [text EXCEPT ![r] = t]
          /\ lines' = [lines EXCEPT ![r] = splitlines(t)]
    /\ lineIdx' = [lineIdx EXCEPT ![r] = 1]
    /\ items' = [items EXCEPT ![r] = <<>>]
    /\ pc' = [pc EXCEPT ![r] = "loop"]
    /\ UNCHANGED <<unitVars, combined, itemIdx, response, running>>

OcrRaises(r) ==
    /\ running = r
    /\ pc[r] = "ocr"
    /\ Raise(r)
    /\ UNCHANGED unitVars

\* one iteration of: for line in extracted_text.splitlines()
SkipShortLine(r) ==
    /\ running = r
    /\ pc[r] = "loop"
    /\ lineIdx[r] <= Len(lines[r])
    /\ SkipLine(lines[r][lineIdx[r]])
    /\ lineIdx' = [lineIdx EXCEPT ![r] = @ + 1]
    /\ UNCHANGED <<unitVars, pc, text, lines, combined, itemIdx, items, response, running>>

SplitLine(r) ==
    /\ running = r
    /\ pc[r] = "loop"
    /\ lineIdx[r] <= Len(lines[r])
    /\ ~SkipLine(lines[r][lineIdx[r]])
    /\ HasSeparator(lines[r][lineIdx[r]])
    /\ combined' = [combined EXCEPT ![r] = split_combined_items(lines[r][lineIdx[r]])]
    /\ itemIdx' = [itemIdx EXCEPT ![r] = 1]
    /\ pc' = [pc EXCEPT ![r] = "inner"]
    /\ UNCHANGED <<unitVars, text, lines, lineIdx, items, response, running>>

SingleLine(r) ==
    /\ running = r
    /\ pc[r] = "loop"
    /\ lineIdx[r] <= Len(lines[r])
    /\ ~SkipLine(lines[r][lineIdx[r]])
    /\ ~HasSeparator(lines[r][lineIdx[r]])
    /\ items' = [items EXCEPT ![r] =
                    AppendItem(@, process_single_item(lines[r][lineIdx[r]]).result)]
    /\ lineIdx' = [lineIdx EXCEPT ![r] = @ + 1]
    /\ UNCHANGED <<unitVars, pc, text, lines, combined, itemIdx, response, running>>

\* one iteration of: for item in combined_items
CombinedItem(r) ==
    /\ running = r
    /\ pc[r] = "inner"
    /\ itemIdx[r] <= Len(combined[r])
    /\ items' = [items EXCEPT ![r] =
                    AppendItem(@, process_single_item(combined[r][itemIdx[r]]).result)]
    /\ itemIdx' = [itemIdx EXCEPT ![r] = @ + 1]
    /\ UNCHANGED <<unitVars, pc, text, lines, lineIdx, combined, response, running>>

CombinedDone(r) ==
    /\ running = r
    /\ pc[r] = "inner"
    /\ itemIdx[r] > Len(combined[r])
    /\ pc' = [pc EXCEPT ![r] = "loop"]
    /\ lineIdx' = [lineIdx EXCEPT ![r] = @ + 1]
    /\ UNCHANGED <<unitVars, text, lines, combined, itemIdx, items, response, running>>

\* return {"items": items}
Return(r) ==
    /\ running = r
    /\ pc[r] = "loop"
    /\ lineIdx[r] > Len(lines[r])
    /\ response' = [response EXCEPT ![r] = <<[status |-> "ok", items |-> items[r]]>>]
    /\ pc' = [pc EXCEPT ![r] = "done"]
    /\ EndCoroutine(r)
    /\ UNCHANGED unitVars

\* any step of request r
process_image(r) ==
    \/ Begin(r) \/ OpenImage(r) \/ OpenImageRaises(r)
    \/ preprocess_image(r) \/ PreprocessRaises(r)
    \/ OcrReturns(r) \/ OcrRaises(r)
    \/ SkipShortLine(r) \/ SplitLine(r) \/ SingleLine(r)
    \/ CombinedItem(r) \/ CombinedDone(r) \/ Return(r)

Next ==
    \/ \E r \in Requests : Begin(r)
    \/ \E r \in Requests : OpenImage(r)
    \/ \E r \in Requests : OpenImageRaises(r)
    \/ \E r \in Requests : preprocess_image(r)
    \/ \E r \in Requests : PreprocessRaises(r)
    \/ \E r \in Requests : OcrReturns(r)
    \/ \E r \in Requests : OcrRaises(r)
    \/ \E r \in Requests : SkipShortLine(r)
    \/ \E r \in Requests : SplitLine(r)
    \/ \E r \in Requests : SingleLine(r)
    \/ \E r \in Requests : CombinedItem(r)
    \/ \E r \in Requests : CombinedDone(r)
    \/ \E r \in Requests : Return(r)

Spec == InitReq /\ [][Next]_vars

(***************************************************************************)
(* Properties.                                                             *)
(***************************************************************************)
NoDigit(s) == \A i \in 1..Len(s) : s[i] \notin Digits
DigitsOf(s) == SelectSeq(s, LAMBDA c : c \in Digits)

\* a case-insensitive str.replace: what replacing "each occurrence found
\* case-insensitively" asks for
RECURSIVE ReplaceAnyCase(_, _, _, _)
ReplaceAnyCase(s, old, new, i) ==
    IF i > Len(s) THEN <<>>
    ELSE IF OccursAt(Lower(s), Lower(old), i)
         THEN new \o ReplaceAnyCase(s, old, new, i + Len(old))
         ELSE <<s[i]>> \o ReplaceAnyCase(s, old, new, i + 1)

KeysFound(name) ==
    {i \in 1..Len(ocr_corrections) : Contains(Lower(name), Lower(ocr_corrections[i][1]))}

\* C1: whenever the title-cased candidate name contains a key of the
\* correction table case-insensitively (and no other key), the returned
\* itemname is that name with the occurrences of the key replaced by the
\* key's correction.
C1_CorrectionReplacesKey ==
    (op = "parse" /\ out.matched) =>
        LET name == Title(Strip(out.group1))
        IN  \A i \in KeysFound(name) :
                KeysFound(name) = {i} =>
                    out.itemname = ReplaceAnyCase(name, ocr_corrections[i][1],
                                                  ocr_corrections[i][2], 1)

\* C2: the name-correction step is idempotent: applied to a name it has
\* already corrected, it gives that name back.
C2_CorrectionIdempotent ==
    op = "recorrect" => out.second = out.first

\* C3: a phrase with no digit and no '+' or ',' parses to None or to an item
\* whose quantity is the empty string.
C3_NoDigitNoQuantity ==
    (op = "parse" /\ NoDigit(arg) /\ ~HasSeparator(arg) /\ out.result # None) =>
        out.result[1].quantity = <<>>

C3_Witness ==
    /\ op = "parse"
    /\ NoDigit(arg)
    /\ ~HasSeparator(arg)
    /\ Contains(Lower(arg), <<" ","k","g">>)
    /\ out.result # None
    /\ out.result[1].quantity = <<>>

\* the line with every '+' read as ','
Normalized(line) == [i \in 1..Len(line) |-> IF line[i] = "+" THEN "," ELSE line[i]]

\* the spans <<i, j>> of the normalized line that hold a trimmed, non-empty
\* segment: no comma inside, no whitespace at either end, and nothing but
\* whitespace between the span and the commas (or line ends) around it
SegmentSpans(n) ==
    {sp \in (1..Len(n)) \X (1..Len(n)) :
        /\ sp[1] <= sp[2]
        /\ \A k \in sp[1]..sp[2] : n[k] # ","
        /\ ~IsSpace(n[sp[1]]) /\ ~IsSpace(n[sp[2]])
        /\ \E a \in 0..(sp[1] - 1) :
              /\ a = 0 \/ n[a] = ","
              /\ \A k \in (a + 1)..(sp[1] - 1) : IsSpace(n[k])
        /\ \E b \in (sp[2] + 1)..(Len(n) + 1) :
              /\ b = Len(n) + 1 \/ n[b] = ","
              /\ \A k \in (sp[2] + 1)..(b - 1) : IsSpace(n[k])}

\* C4: for a line containing '+' or ',', split_combined_items returns, in
\* left-to-right order, exactly the non-empty trimmed segments of the
\* normalized line; no phrase is empty or has whitespace at either end.
C4_SplitSegments ==
    (op = "split" /\ HasSeparator(arg)) =>
        LET n == Normalized(arg)
            spans == SegmentSpans(n)
        IN  /\ Len(out) = Cardinality(spans)
            /\ \A x \in 1..Len(out) :
                  /\ out[x] # <<>>
                  /\ ~IsSpace(out[x][1]) /\ ~IsSpace(out[x][Len(out[x])])
                  /\ \E sp \in spans :
                        /\ Cardinality({t \in spans : t[1] < sp[1]}) = x - 1
                        /\ out[x] = SubSeq(n, sp[1], sp[2])

C4_Witness ==
    /\ op = "split"
    /\ HasSeparator(arg)
    /\ Len(out) = 2
    /\ Len(out[1]) + Len(out[2]) + 1 < Len(arg)

\* C5: every item process_single_item returns has a name longer than one
\* character; a final name of length 0 or 1 yields None, and so do the
\* phrases "" and "a".
C5_NameLongerThanOne ==
    op = "parse" =>
        /\ out.result # None =>
              /\ Len(out.result[1].itemname) > 1
              /\ out.result[1].itemname = out.itemname
        /\ Len(out.itemname) <= 1 => out.result = None
        /\ arg \in {<<>>, <<"a">>} => out.result = None

C5_Witness ==
    /\ op = "parse"
    /\ arg = <<"a">>
    /\ out.matched
    /\ out.itemname = <<"A">>
    /\ out.result = None

\* the phrases a line contributes, and the items a sequence of phrases
\* parses to, left to right
PhrasesOfLine(line) ==
    IF SkipLine(line) THEN <<>>
    ELSE IF HasSeparator(line) THEN split_combined_items(line)
    ELSE <<line>>

\* both tabulated over the lines the OCR engine can return
OcrLines == UNION {{splitlines(t)[i] : i \in 1..Len(splitlines(t))} : t \in OcrTexts}

LinePhrases == [l \in OcrLines |-> PhrasesOfLine(l)]

ParseResult ==
    [p \in UNION {{LinePhrases[l][i] : i \in 1..Len(LinePhrases[l])} : l \in OcrLines}
        |-> process_single_item(p).result]

RECURSIVE ParsedItems(_)
ParsedItems(phrases) ==
    IF phrases = <<>> THEN <<>>
    ELSE ParseResult[Head(phrases)] \o ParsedItems(Tail(phrases))

PhrasesOfLines(ls) == Flatten([i \in 1..Len(ls) |-> LinePhrases[ls[i]]])

\* the phrases request r has processed so far
PhrasesSoFar(r) ==
    IF pc[r] = "inner"
    THEN PhrasesOfLines(SubSeq(lines[r], 1, lineIdx[r] - 1))
         \o SubSeq(combined[r], 1, itemIdx[r] - 1)
    ELSE PhrasesOfLines(SubSeq(lines[r], 1, lineIdx[r] - 1))

\* C6: at every step of the line loop the items list is the concatenation,
\* in line order and then left-to-right phrase order, of the non-null parse
\* results of the phrases processed so far; the returned list is that of
\* all the lines of the OCR text.
C6_ItemsInSourceOrder ==
    /\ [](\A r \in Requests :
            /\ pc[r] \in {"loop", "inner"} =>
                  /\ lines[r] = splitlines(text[r])
                  /\ items[r] = ParsedItems(PhrasesSoFar(r))
            /\ pc[r] = "inner" => combined[r] = LinePhrases[lines[r][lineIdx[r]]])
    /\ [][\A r \in Requests :
            (pc[r] # "done" /\ pc'[r] = "done") =>
                response'[r][1].items = ParsedItems(PhrasesOfLines(splitlines(text[r])))]_vars

C6_Witness ==
    \E r \in Requests :
        /\ pc[r] = "done"
        /\ Len(response[r][1].items) = 3
        /\ response[r][1].items[1].itemname = <<"O","i","l">>
        /\ response[r][1].items[2].itemname = <<"P","o","t","a","t","o">>
        /\ response[r][1].items[3].itemname = <<"I","t","e","m"," ","5">>

\* C7: a request is all-or-nothing: a failed request answers with the
\* failure and no list, a finished one with a complete list, and none
\* answers before it ends; a request that fails had not started on the OCR
\* text, and once it is processing the text (where unparseable phrases are
\* met and dropped) it ends with the list of every line.
C7_AllOrNothing ==
    /\ [](\A r \in Requests :
            /\ pc[r] = "failed" => response[r] = Failure
            /\ pc[r] = "done" => response[r] # None /\ response[r][1].status = "ok"
            /\ pc[r] \notin {"failed", "done"} => response[r] = None)
    /\ [][\A r \in Requests :
            /\ pc[r] \in {"loop", "inner"} => pc'[r] # "failed"
            /\ (pc[r] # "done" /\ pc'[r] = "done") =>
                  /\ lineIdx[r] > Len(splitlines(text[r]))
                  /\ response'[r] = <<[status |-> "ok", items |-> items[r]]>>
                  /\ Len(items[r]) =
                        Cardinality({i \in 1..Len(PhrasesOfLines(lines[r])) :
                                        ParseResult[PhrasesOfLines(lines[r])[i]] # None})]_vars

\* one request has failed; another has gone through every line, dropped an
\* unparseable phrase and is about to return the rest
C7_Witness ==
    \E r, q \in Requests :
        /\ pc[r] = "failed"
        /\ response[r] = Failure
        /\ pc[q] = "loop"
        /\ lineIdx[q] > Len(lines[q])
        /\ items[q] # <<>>
        /\ Len(items[q]) < Len(PhrasesOfLines(lines[q]))

\* C8: while one request is inside the OCR call, any other unfinished
\* request can still take a step.
C8_OcrDoesNotStall ==
    \A r, q \in Requests :
        (r # q /\ pc[r] = "ocr" /\ pc[q] \notin {"done", "failed"}) =>
            ENABLED process_image(q)

IsDigits(s) == Len(s) > 0 /\ \A i \in 1..Len(s) : s[i] \in Digits

IsNumber(s) ==
    \/ IsDigits(s)
    \/ \E d \in 2..(Len(s) - 1) :
          s[d] = "." /\ IsDigits(SubSeq(s, 1, d - 1)) /\ IsDigits(SubSeq(s, d + 1, Len(s)))

IsUnitWord(s) == \E u \in 1..Len(Units) : Lower(s) = Units[u]

\* a number, optionally followed by optional whitespace and a unit
IsQuantityText(s) ==
    \E n \in 1..Len(s) :
        /\ IsNumber(SubSeq(s, 1, n))
        /\ \/ n = Len(s)
           \/ \E w \in n..(Len(s) - 1) :
                 /\ \A k \in (n + 1)..w : IsSpace(s[k])
                 /\ IsUnitWord(SubSeq(s, w + 1, Len(s)))

\* where a trailing number-plus-unit run of s can start
QuantityStarts(s) == {k \in 1..Len(s) : IsQuantityText(SubSeq(s, k, Len(s)))}

ItemFiveTwoKg == <<"I","t","e","m"," ","5"," ","2","k","g">>

\* C9: when the cleaned phrase ends in a number optionally followed by a
\* unit and holds digits before that run, the quantity is the trailing run
\* (the longest one) with its whitespace removed and every earlier digit is
\* in the itemname; "Item 5 2kg" yields "Item 5" and "2kg".
C9_TrailingRunIsQuantity ==
    op = "parse" =>
        /\ LET c == out.cleaned
               starts == QuantityStarts(c)
           IN  starts # {} =>
                  LET k == CHOOSE x \in starts : \A y \in starts : x <= y
                  IN  ~NoDigit(SubSeq(c, 1, k - 1)) =>
                         /\ out.quantity = RemoveSpace(SubSeq(c, k, Len(c)))
                         /\ DigitsOf(out.itemname) = DigitsOf(SubSeq(c, 1, k - 1))
        /\ arg = ItemFiveTwoKg =>
              out.result = <<[itemname |-> <<"I","t","e","m"," ","5">>,
                              quantity |-> <<"2","k","g">>]>>

C9_Witness ==
    /\ op = "parse"
    /\ arg = ItemFiveTwoKg
    /\ out.itemname = <<"I","t","e","m"," ","5">>
    /\ out.quantity = <<"2","k","g">>

\* C10: for a digit-free phrase whose last word is longer than one letter
\* and ends in v or V, the candidate name is the whole cleaned phrase.
C10_NameKeepsItsLetters ==
    (op = "parse" /\ out.matched /\ NoDigit(arg)) =>
        LET c == out.cleaned
        IN  (/\ Len(c) >= 2
             /\ LowerChar(c[Len(c)]) = "v"
             /\ IsCased(c[Len(c) - 1])) =>
                Strip(out.group1) = c

====
